---- MODULE Spec2Model ----
(***************************************************************************)
(* boost::wintls::stream - the mediator between a byte transport and the   *)
(* SSPI/Schannel drivers.                                                  *)
(*                                                                         *)
(* Modelled from include/boost/wintls/stream.hpp (blocking orchestrators)  *)
(* and include/boost/wintls/detail/async_handshake.hpp (the coroutine).    *)
(* The four drivers (detail/sspi_handshake.hpp, sspi_encrypt.hpp,          *)
(* sspi_decrypt.hpp, sspi_shutdown.hpp) are included by stream.hpp but     *)
(* their text is not available; they are modelled from sections 4.1-4.5    *)
(* of the specification.                                                   *)
(*                                                                         *)
(* A blocking operation is split at its transport calls: the state between *)
(* two actions of one operation is "blocked in next_layer_.read_some" or   *)
(* "blocked in one write_some of net::write".  Every action runs the code  *)
(* from one such point to the next one or to the return.                   *)
(***************************************************************************)
EXTENDS Integers, Sequences, FiniteSets, TLC

\* ---------------------------------------------------------------- bounds
MaxOps == 2          \* caller operations started on the stream
MaxChunk == 2        \* most bytes one transport read or write transfers
MaxPlain == 3        \* longest plaintext offered to one write_some
MaxCap == 2          \* largest caller buffer offered to read_some
MaxPeerRecords == 2  \* application records the peer sends

\* ------------------------------------------- sizes of the engine's units
RecordSize == 2      \* plaintext bytes one TLS record carries
HsRecLen == 2        \* bytes of one inbound handshake record
FlightLen == 2       \* bytes of one outbound handshake flight

\* ------------------------------------------------------------ error codes
OK == "success"
Stale == "stale_caller_value"
TransportErrors == {"timed_out"}
SEC_I_CONTEXT_EXPIRED == "SEC_I_CONTEXT_EXPIRED"
SEC_E_MESSAGE_ALTERED == "SEC_E_MESSAGE_ALTERED"
SEC_E_ILLEGAL_MESSAGE == "SEC_E_ILLEGAL_MESSAGE"
SEC_E_INVALID_HANDLE == "SEC_E_INVALID_HANDLE"
SEC_E_NO_CREDENTIALS == "SEC_E_NO_CREDENTIALS"
UnexpectedClose == "unexpected_close_during_handshake"
TruncatedRecord == "truncated_record"
ProtocolErrors == {SEC_E_MESSAGE_ALTERED, SEC_E_ILLEGAL_MESSAGE, SEC_E_INVALID_HANDLE,
                   SEC_E_NO_CREDENTIALS, UnexpectedClose, TruncatedRecord}

HandshakeTypes == {"client", "server"}

Min(a, b) == IF a < b THEN a ELSE b

Take(s, n) == SubSeq(s, 1, Min(n, Len(s)))

Drop(s, n) == SubSeq(s, Min(n, Len(s)) + 1, Len(s))

IsPrefix(s, t) == Len(s) <= Len(t) /\ SubSeq(t, 1, Len(s)) = s

\* ------------------------------------------------------------------------
\* Record layer of the engine (TLS provider): one record is a header byte
\* that carries the payload length, followed by the enciphered payload.
\* ------------------------------------------------------------------------
CloseAlert == <<200>>

EncByte(b) == b + 20

DecByte(c) == c - 20

IsCipherByte(c) == c > 20 /\ c < 99

EncryptRecord(p) == <<100 + Len(p)>> \o [i \in 1..Len(p) |-> EncByte(p[i])]

\* Verdict of the engine on the front of a ciphertext buffer.
RecordStatus(buf) ==
  IF buf = <<>> THEN "incomplete"
  ELSE IF buf[1] = 200 THEN "close_notify"
  ELSE IF buf[1] <= 100 \/ buf[1] > 100 + RecordSize THEN "bad"
  ELSE IF Len(buf) < 1 + (buf[1] - 100) THEN "incomplete"
  ELSE IF \A i \in 2..(1 + (buf[1] - 100)) : IsCipherByte(buf[i]) THEN "record"
  ELSE "bad"

RecordLen(buf) == 1 + (buf[1] - 100)

RecordPlain(buf) == [i \in 1..(buf[1] - 100) |-> DecByte(buf[i + 1])]

\* Plaintext a receiver obtains from a byte stream: the payloads of the
\* complete valid records, in order, up to the first close_notify, bad
\* record or incomplete tail.
RECURSIVE PeerDecrypt(_)
PeerDecrypt(bytes) ==
  IF RecordStatus(bytes) = "record"
  THEN RecordPlain(bytes) \o PeerDecrypt(Drop(bytes, RecordLen(bytes)))
  ELSE <<>>

\* ------------------------------------------------------------------------
\* The drivers and the handles.  Every driver is constructed with the
\* stream's members ctxt_handle_ and cred_handle_ (stream.hpp lines 69-73)
\* and is never handed a handle again, while the context is established
\* only by the handshake: a driver keeps an alias of the members it was
\* constructed with.  handles names the stream object whose handle members
\* the driver's alias designates: "own" the stream the driver is a member
\* of, "moved_from" the stream this one was move-constructed from.
\* ------------------------------------------------------------------------
\* stream(stream&& other) = default applied to one driver member: the
\* driver is moved member by member and its alias is copied with it.
move_driver(d) == [d EXCEPT !.handles = "moved_from"]

\* What a driver can find behind its alias of ctxt_handle_: the stream's
\* context as the handshake left it (established) when the alias designates
\* the stream's own member; anything when it designates a member of a
\* stream object whose lifetime has ended.
ContextStates(d, established) ==
  IF d.handles = "own" THEN {established} ELSE BOOLEAN

\* ------------------------------------------------------------------------
\* detail::sspi_handshake
\* ------------------------------------------------------------------------
\* The flights of the handshake as the engine sees them, by role.
Script(type) ==
  IF type = "client" THEN <<"out", "in", "out">> ELSE <<"in", "out", "in">>

InitHandshake ==
  [type |-> "client", started |-> FALSE, stage |-> 0, state |-> "none",
   in_len |-> 0, in_bad |-> FALSE, eof |-> FALSE, out_size |-> 0,
   last_error |-> OK, committed |-> 0, fed |-> -1, manual_auth |-> 0,
   handles |-> "own"]

\* An initialisation that starts the driver over: state, buffers and the
\* established context are dropped.
handshake_init_resets(h, type) == [InitHandshake EXCEPT !.type = type]

\* handshake_(type): records the role for the first engine call.
handshake_init(h, type) == [h EXCEPT !.type = type]

\* What the engine answers at stage s once the input question is settled.
handshake_produce(h, s) ==
  IF s = Len(Script(h.type)) THEN [h EXCEPT !.stage = s, !.state = "done"]
  ELSE IF Script(h.type)[s + 1] = "out"
       THEN [h EXCEPT !.stage = s + 1, !.state = "data_available", !.out_size = FlightLen]
       ELSE [h EXCEPT !.stage = s, !.state = "data_needed"]

handshake_fail(h, code) == [h EXCEPT !.state = "error", !.last_error = code]

\* handshake_(): one step of the driver.  cred_ok is the provider's answer
\* to the lazy acquisition of the credentials handle on the first step.
\* fed notes how many bytes were committed since a step that returned
\* data_needed (-1 when the previous status was another one).
handshake_step(h0, cred_ok) ==
  LET h == [h0 EXCEPT !.fed = IF h0.state = "data_needed" THEN h0.committed ELSE -1,
                      !.committed = 0, !.started = TRUE]
  IN IF h.last_error # OK THEN [h EXCEPT !.state = "error"]
     ELSE IF ~h0.started /\ ~cred_ok THEN handshake_fail(h, SEC_E_NO_CREDENTIALS)
     ELSE IF h.stage = Len(Script(h.type)) THEN [h EXCEPT !.state = "done"]
     ELSE IF Script(h.type)[h.stage + 1] = "out" THEN handshake_produce(h, h.stage)
     ELSE IF h.in_len >= HsRecLen
          THEN IF h.in_bad THEN handshake_fail(h, SEC_E_ILLEGAL_MESSAGE)
               ELSE handshake_produce([h EXCEPT !.in_len = h.in_len - HsRecLen], h.stage + 1)
     ELSE IF h.eof THEN handshake_fail(h, UnexpectedClose)
     ELSE [h EXCEPT !.state = "data_needed"]

\* handshake_.size_read(n): commit n bytes read into in_buffer(); an empty
\* read is the end of the transport stream.
handshake_size_read(h, n, bad) ==
  [h EXCEPT !.in_len = h.in_len + n, !.in_bad = h.in_bad \/ bad,
            !.eof = h.eof \/ (n = 0), !.committed = n]

\* handshake_.size_written(n): n bytes of out_buffer() are on the wire.
handshake_size_written(h, n) == [h EXCEPT !.out_size = h.out_size - n]

\* handshake_.manual_auth(): manual certificate selection after done.
handshake_manual_auth(h) == [h EXCEPT !.manual_auth = 1]

\* The security context is established: the driver has returned done.
HandshakeDone(h) == h.state = "done"

\* ------------------------------------------------------------------------
\* detail::sspi_encrypt
\* ------------------------------------------------------------------------
InitEncrypt == [buffers |-> <<>>, handles |-> "own"]

\* encrypt_(buffers, ec): one encrypt step, one record; at most RecordSize
\* plaintext bytes are consumed.  ctx_ok: the security context exists.
sspi_encrypt(e, p, ctx_ok) ==
  IF ~ctx_ok
  THEN [e |-> e, consumed |-> 0, ec |-> SEC_E_INVALID_HANDLE]
  ELSE [e |-> [e EXCEPT !.buffers = EncryptRecord(Take(p, RecordSize))],
        consumed |-> Min(Len(p), RecordSize), ec |-> OK]

\* ------------------------------------------------------------------------
\* detail::sspi_decrypt
\* ------------------------------------------------------------------------
InitDecrypt ==
  [encrypted_data |-> <<>>, decrypted_data |-> <<>>, size_decrypted |-> 0,
   copied |-> <<>>, state |-> "none", last_error |-> OK, eof |-> FALSE,
   committed |-> 0, fed |-> -1, handles |-> "own"]

\* Copy min(cap, remaining) staged plaintext bytes into the caller's buffer.
decrypt_copy_out(d, cap) ==
  [d EXCEPT !.copied = Take(d.decrypted_data, cap),
            !.size_decrypted = Min(cap, Len(d.decrypted_data)),
            !.decrypted_data = Drop(d.decrypted_data, cap),
            !.state = "data_available"]

decrypt_fail(d, code) ==
  [d EXCEPT !.state = "error", !.last_error = code, !.size_decrypted = 0, !.copied = <<>>]

\* The read algorithm without the test of a zero-capacity buffer: the
\* engine is stepped whatever the capacity.
sspi_decrypt_steps_on_zero(d0, cap, ctx_ok) ==
  LET d == [d0 EXCEPT !.fed = IF d0.state = "data_needed" THEN d0.committed ELSE -1,
                      !.committed = 0]
      verdict == RecordStatus(d.encrypted_data)
  IN IF d.decrypted_data # <<>> THEN decrypt_copy_out(d, cap)
     ELSE IF ~ctx_ok THEN decrypt_fail(d, SEC_E_INVALID_HANDLE)
     ELSE IF d.last_error \notin {OK, SEC_E_INVALID_HANDLE} THEN decrypt_fail(d, d.last_error)
     ELSE IF verdict = "record"
          THEN decrypt_copy_out([d EXCEPT !.decrypted_data = RecordPlain(d.encrypted_data),
                                          !.encrypted_data = Drop(d.encrypted_data, RecordLen(d.encrypted_data)),
                                          !.last_error = OK], cap)
     ELSE IF verdict = "close_notify" THEN decrypt_fail(d, SEC_I_CONTEXT_EXPIRED)
     ELSE IF verdict = "bad" THEN decrypt_fail(d, SEC_E_MESSAGE_ALTERED)
     ELSE IF d.eof THEN decrypt_fail(d, TruncatedRecord)
     ELSE [d EXCEPT !.state = "data_needed", !.last_error = OK]

\* decrypt_(buffers): the read algorithm of the decrypt driver for a caller
\* buffer of capacity cap.
sspi_decrypt(d0, cap, ctx_ok) ==
  LET d == [d0 EXCEPT !.fed = IF d0.state = "data_needed" THEN d0.committed ELSE -1,
                      !.committed = 0]
      verdict == RecordStatus(d.encrypted_data)
  IN IF cap = 0
     THEN [d EXCEPT !.copied = <<>>, !.size_decrypted = 0, !.state = "data_available"]
     ELSE IF d.decrypted_data # <<>> THEN decrypt_copy_out(d, cap)
     ELSE IF ~ctx_ok THEN decrypt_fail(d, SEC_E_INVALID_HANDLE)
     ELSE IF d.last_error \notin {OK, SEC_E_INVALID_HANDLE} THEN decrypt_fail(d, d.last_error)
     ELSE IF verdict = "record"
          THEN decrypt_copy_out([d EXCEPT !.decrypted_data = RecordPlain(d.encrypted_data),
                                          !.encrypted_data = Drop(d.encrypted_data, RecordLen(d.encrypted_data)),
                                          !.last_error = OK], cap)
     ELSE IF verdict = "close_notify" THEN decrypt_fail(d, SEC_I_CONTEXT_EXPIRED)
     ELSE IF verdict = "bad" THEN decrypt_fail(d, SEC_E_MESSAGE_ALTERED)
     ELSE IF d.eof THEN decrypt_fail(d, TruncatedRecord)
     ELSE [d EXCEPT !.state = "data_needed", !.last_error = OK]

\* decrypt_.size_read(n): commit the bytes read into input_buffer.
decrypt_size_read(d, bytes) ==
  [d EXCEPT !.encrypted_data = d.encrypted_data \o bytes,
            !.eof = d.eof \/ (bytes = <<>>), !.committed = Len(bytes)]

\* ------------------------------------------------------------------------
\* detail::sspi_shutdown
\* ------------------------------------------------------------------------
InitShutdown == [buffer |-> <<>>, emitted |-> 0, written |-> 0, handles |-> "own"]

\* shutdown_(): produce the close_notify alert.
sspi_shutdown(s, ctx_ok) ==
  IF ~ctx_ok THEN [s |-> s, ec |-> SEC_E_INVALID_HANDLE]
  ELSE [s |-> [s EXCEPT !.buffer = CloseAlert, !.emitted = 1], ec |-> OK]

\* shutdown_.size_written(n)
shutdown_size_written(s, n) == [s EXCEPT !.written = n]

\* ------------------------------------------------------------------------
\* The operation in flight on the stream (stream.hpp, async_handshake.hpp)
\* ------------------------------------------------------------------------
\* net_error, saw_eof and io note what next_layer_ answered during the
\* operation: the error it raised, an empty read, a completed transfer.
\* throwing, ret and thrown belong to the overloads without ec: the call is
\* one of them, the value it returned, the error it raised.
\* pc: "idle" no operation yet, "read" a transport read is outstanding,
\* "write" net::write / net::async_write is between two transport writes,
\* "posted" the completion is queued on the executor, "done" the operation
\* has returned or its handler has run.
NewOp(kind, ec0) ==
  [kind |-> kind, pc |-> "idle", ec |-> ec0, n |-> 0, total |-> 0, written |-> 0,
   cap |-> 0, plain |-> <<>>, consumed |-> 0, entry_count_ |-> 0,
   completions |-> 0, posts |-> 0, via |-> "none",
   net_error |-> "none", saw_eof |-> FALSE, io |-> FALSE,
   throwing |-> FALSE, ret |-> 0, thrown |-> "none"]

\* A write that is content with the first transfer, as a single
\* next_layer_.write_some would be.
transfer_once(written, total) == FALSE

\* completion condition of net::write: keep writing while bytes remain.
transfer_all(written, total) == written < total

\* The switch without the assignment of last_error() in case error.
handshake_loop_error_unreported(h0, o, cred_ok) ==
  LET h == handshake_step(h0, cred_ok)
  IN IF h.state = "done" THEN [h |-> h, o |-> [o EXCEPT !.pc = "done"]]
     ELSE IF h.state = "data_needed" THEN [h |-> h, o |-> [o EXCEPT !.pc = "read"]]
     ELSE IF h.state = "data_available"
          THEN [h |-> h, o |-> [o EXCEPT !.pc = "write", !.total = h.out_size, !.written = 0]]
     ELSE [h |-> h, o |-> [o EXCEPT !.pc = "done"]]

\* ---- stream::handshake(type, ec), lines 138-169 -------------------------
\* state = handshake_() and the switch on it.
handshake_loop(h0, o, cred_ok) ==
  LET h == handshake_step(h0, cred_ok)
  IN IF h.state = "done" THEN [h |-> h, o |-> [o EXCEPT !.pc = "done"]]
     ELSE IF h.state = "data_needed" THEN [h |-> h, o |-> [o EXCEPT !.pc = "read"]]
     ELSE IF h.state = "data_available"
          THEN [h |-> h, o |-> [o EXCEPT !.pc = "write", !.total = h.out_size, !.written = 0]]
     ELSE [h |-> h, o |-> [o EXCEPT !.pc = "done", !.ec = h.last_error]]

\* The loop body without handshake_.size_read(size_read): the bytes read
\* are never committed.
handshake_after_read_uncommitted(h, o, ec, n, bad) ==
  IF ec # OK THEN [h |-> h, o |-> [o EXCEPT !.pc = "done", !.ec = ec]]
  ELSE handshake_loop(h, [o EXCEPT !.ec = OK], TRUE)

\* lines 145-150: next_layer_.read_some returned (ec, n).
handshake_after_read(h, o, ec, n, bad) ==
  IF ec # OK THEN [h |-> h, o |-> [o EXCEPT !.pc = "done", !.ec = ec]]
  ELSE handshake_loop(handshake_size_read(h, n, bad), [o EXCEPT !.ec = OK], TRUE)

\* lines 153-158: net::write returned (ec, n).
handshake_after_write(h, o, ec, n) ==
  IF ec # OK THEN [h |-> h, o |-> [o EXCEPT !.pc = "done", !.ec = ec]]
  ELSE handshake_loop(handshake_size_written(h, n), [o EXCEPT !.ec = OK], TRUE)

\* ---- detail::async_handshake::operator(), lines 30-84 -------------------
\* self.complete(ec), called from the execution context ctx.
complete(o, ec, ctx) ==
  [o EXCEPT !.pc = "done", !.ec = ec, !.completions = o.completions + 1, !.via = ctx]

\* The test off by one: the first entry counts as a continuation.
is_continuation_from_first(o) == o.entry_count_ > 0

is_continuation(o) == o.entry_count_ > 1

\* lines 73-82: post on the first entry, then self.complete(last_error()).
async_finish(h, o, ctx) ==
  IF ~is_continuation(o)
  THEN [h |-> h, o |-> [o EXCEPT !.pc = "posted", !.posts = o.posts + 1]]
  ELSE [h |-> h, o |-> complete(o, h.last_error, ctx)]

\* lines 44-71: one turn of while (true).
async_loop(h0, o, ctx, cred_ok) ==
  LET h == handshake_step(h0, cred_ok)
  IN IF h.state = "data_needed" THEN [h |-> h, o |-> [o EXCEPT !.pc = "read"]]
     ELSE IF h.state = "data_available"
          THEN [h |-> h, o |-> [o EXCEPT !.pc = "write", !.total = h.out_size, !.written = 0]]
     ELSE IF h.state = "error" THEN async_finish(h, o, ctx)
     ELSE async_finish(handshake_manual_auth(h), o, ctx)

\* BOOST_ASIO_CORO_REENTER: continue after the yield the coroutine is at.
async_reenter(h, o, length, bad, ctx, cred_ok) ==
  IF o.pc = "idle" THEN async_loop(h, o, ctx, cred_ok)
  ELSE IF o.pc = "read" THEN async_loop(handshake_size_read(h, length, bad), o, ctx, cred_ok)
  ELSE IF o.pc = "write" THEN async_loop(handshake_size_written(h, length), o, ctx, cred_ok)
  ELSE IF o.pc = "posted" THEN [h |-> h, o |-> complete(o, h.last_error, ctx)]
  ELSE [h |-> h, o |-> o]

\* The entry without the return after self.complete(ec): the coroutine is
\* re-entered after the handler has run.
async_entry_no_return(h, o, ec, length, bad, ctx, cred_ok) ==
  LET r == async_reenter(h, [o EXCEPT !.entry_count_ = o.entry_count_ + 1], length, bad, ctx, cred_ok)
  IN IF ec # OK
     THEN [h |-> r.h, o |-> [r.o EXCEPT !.completions = r.o.completions + 1,
                                      !.ec = IF r.o.pc = "done" THEN r.o.ec ELSE ec,
                                      !.via = ctx]]
     ELSE r

\* The entry that completes a failed transport operation with the driver's
\* last_error() instead of ec.
async_entry_reports_last_error(h, o, ec, length, bad, ctx, cred_ok) ==
  IF ec # OK THEN [h |-> h, o |-> complete(o, h.last_error, ctx)]
  ELSE async_reenter(h, [o EXCEPT !.entry_count_ = o.entry_count_ + 1], length, bad, ctx, cred_ok)

\* operator()(self, ec, length), lines 31-41.
async_entry(h, o, ec, length, bad, ctx, cred_ok) ==
  IF ec # OK THEN [h |-> h, o |-> complete(o, ec, ctx)]
  ELSE async_reenter(h, [o EXCEPT !.entry_count_ = o.entry_count_ + 1], length, bad, ctx, cred_ok)

\* read_some without the check of state::error after the loop.
read_some_loop_error_unreported(d0, o, ctx_ok) ==
  LET d == sspi_decrypt(d0, o.cap, ctx_ok)
  IN IF d.state = "data_needed" THEN [d |-> d, o |-> [o EXCEPT !.pc = "read"]]
     ELSE [d |-> d, o |-> [o EXCEPT !.pc = "done", !.n = d.size_decrypted]]

\* read_some that takes the peer's close for an ordinary empty read.
read_some_loop_close_as_success(d0, o, ctx_ok) ==
  LET d == sspi_decrypt(d0, o.cap, ctx_ok)
  IN IF d.state = "data_needed" THEN [d |-> d, o |-> [o EXCEPT !.pc = "read"]]
     ELSE IF d.state = "error" /\ d.last_error # SEC_I_CONTEXT_EXPIRED
          THEN [d |-> d, o |-> [o EXCEPT !.pc = "done", !.ec = d.last_error, !.n = 0]]
     ELSE [d |-> d, o |-> [o EXCEPT !.pc = "done", !.n = d.size_decrypted]]

\* read_some that refills the driver's input from the transport before it
\* asks the driver, whenever the input is empty.
read_some_loop_refills_first(d0, o, ctx_ok) ==
  LET d == sspi_decrypt(d0, o.cap, ctx_ok)
  IN IF d0.encrypted_data = <<>> /\ ~o.io /\ o.cap > 0
     THEN [d |-> d0, o |-> [o EXCEPT !.pc = "read"]]
     ELSE IF d.state = "data_needed" THEN [d |-> d, o |-> [o EXCEPT !.pc = "read"]]
     ELSE IF d.state = "error"
          THEN [d |-> d, o |-> [o EXCEPT !.pc = "done", !.ec = d.last_error, !.n = 0]]
     ELSE [d |-> d, o |-> [o EXCEPT !.pc = "done", !.n = d.size_decrypted]]

\* ---- stream::read_some(buffers, ec), lines 235-253 ----------------------
\* state = decrypt_(buffers) and what follows it.
read_some_loop(d0, o, ctx_ok) ==
  LET d == sspi_decrypt(d0, o.cap, ctx_ok)
  IN IF d.state = "data_needed" THEN [d |-> d, o |-> [o EXCEPT !.pc = "read"]]
     ELSE IF d.state = "error"
          THEN [d |-> d, o |-> [o EXCEPT !.pc = "done", !.ec = d.last_error, !.n = 0]]
     ELSE [d |-> d, o |-> [o EXCEPT !.pc = "done", !.n = d.size_decrypted]]

\* The loop body without decrypt_.size_read(size_read): the bytes read
\* are never committed.
read_some_after_read_uncommitted(d, o, ec, bytes, ctx_ok) ==
  IF ec # OK THEN [d |-> d, o |-> [o EXCEPT !.pc = "done", !.ec = ec, !.n = 0]]
  ELSE read_some_loop(d, [o EXCEPT !.ec = OK], ctx_ok)

\* The loop body with decrypt_.size_read(size_read) ahead of the test of
\* ec: the count of a failed read is committed too.
read_some_after_read_commits_on_error(d, o, ec, bytes, ctx_ok) ==
  IF ec # OK
  THEN [d |-> decrypt_size_read(d, bytes), o |-> [o EXCEPT !.pc = "done", !.ec = ec, !.n = 0]]
  ELSE read_some_loop(decrypt_size_read(d, bytes), [o EXCEPT !.ec = OK], ctx_ok)

\* lines 239-244: next_layer_.read_some returned (ec, bytes).
read_some_after_read(d, o, ec, bytes, ctx_ok) ==
  IF ec # OK THEN [d |-> d, o |-> [o EXCEPT !.pc = "done", !.ec = ec, !.n = 0]]
  ELSE read_some_loop(decrypt_size_read(d, bytes), [o EXCEPT !.ec = OK], ctx_ok)

\* ---- stream::write_some(buffers, ec), lines 328-341 ---------------------
write_some_start(e0, o, p, ctx_ok) ==
  LET r == sspi_encrypt(e0, p, ctx_ok)
  IN IF r.ec # OK
     THEN [e |-> r.e, o |-> [o EXCEPT !.pc = "done", !.ec = r.ec, !.n = 0, !.plain = p]]
     ELSE [e |-> r.e, o |-> [o EXCEPT !.pc = "write", !.ec = r.ec, !.plain = p,
                                      !.consumed = r.consumed,
                                      !.total = Len(r.e.buffers), !.written = 0]]

\* A write_some that reports the whole of the caller's plaintext as
\* consumed once the record is sent.
write_some_after_write_reports_all(o, ec) ==
  IF ec # OK THEN [o EXCEPT !.pc = "done", !.ec = ec, !.n = 0]
  ELSE [o EXCEPT !.pc = "done", !.ec = ec, !.n = Len(o.plain)]

\* lines 335-340: net::write returned ec.
write_some_after_write(o, ec) ==
  IF ec # OK THEN [o EXCEPT !.pc = "done", !.ec = ec, !.n = 0]
  ELSE [o EXCEPT !.pc = "done", !.ec = ec, !.n = o.consumed]

\* ---- stream::read_some(buffers), lines 273-279, and
\* ---- stream::write_some(buffers), lines 361-367 -------------------------
\* The function has no return statement: when control reaches its end the
\* value the caller receives is indeterminate.
Indeterminate(o) ==
  IF o.throwing /\ o.pc = "done" /\ o.ec = OK THEN 0..MaxPlain ELSE {0}

\* What follows the call of the ec overload: throw_error(ec) if ec is set,
\* otherwise the end of the function, the caller receiving g.
throwing_return(o, g) ==
  IF ~(o.throwing /\ o.pc = "done") THEN o
  ELSE IF o.ec # OK THEN [o EXCEPT !.thrown = o.ec]
  ELSE [o EXCEPT !.ret = g]

\* ---- stream::shutdown(ec), lines 409-418 --------------------------------
shutdown_start(s0, o, ctx_ok) ==
  LET r == sspi_shutdown(s0, ctx_ok)
  IN IF r.ec # OK THEN [s |-> r.s, o |-> [o EXCEPT !.pc = "done", !.ec = r.ec]]
     ELSE [s |-> r.s, o |-> [o EXCEPT !.pc = "write", !.ec = r.ec,
                                      !.total = Len(r.s.buffer), !.written = 0]]

\* A shutdown that takes the close back when the write failed: the driver
\* is as before the call.
shutdown_after_write_failure_reverts(s, o, ec, n) ==
  IF ec = OK THEN [s |-> shutdown_size_written(s, n), o |-> [o EXCEPT !.pc = "done", !.ec = ec]]
  ELSE [s |-> InitShutdown, o |-> [o EXCEPT !.pc = "done", !.ec = ec]]

\* lines 414-417: net::write returned (ec, n).
shutdown_after_write(s, o, ec, n) ==
  IF ec = OK THEN [s |-> shutdown_size_written(s, n), o |-> [o EXCEPT !.pc = "done", !.ec = ec]]
  ELSE [s |-> s, o |-> [o EXCEPT !.pc = "done", !.ec = ec]]

\* ------------------------------------------------------------------------
\* State
\* ------------------------------------------------------------------------
VARIABLES
  handshake_,   \* stream::handshake_ (detail::sspi_handshake)
  encrypt_,     \* stream::encrypt_   (detail::sspi_encrypt)
  decrypt_,     \* stream::decrypt_   (detail::sspi_decrypt)
  shutdown_,    \* stream::shutdown_  (detail::sspi_shutdown)
  op,           \* the operation in flight or last finished
  wire,         \* record-layer bytes next_layer_ has accepted, in order
  inflight,     \* bytes the peer sent that next_layer_ has not delivered yet
  peer,         \* the peer: plaintext written, close_notify sent, transport closed
  sentPlain,    \* first bytes_consumed bytes of every write_some, concatenated
  gotPlain,     \* bytes returned by the read_some calls, concatenated
  nops          \* operations started

vars == <<handshake_, encrypt_, decrypt_, shutdown_, op, wire, inflight, peer,
          sentPlain, gotPlain, nops>>

Init ==
  /\ handshake_ = InitHandshake
  /\ encrypt_ = InitEncrypt
  /\ decrypt_ = InitDecrypt
  /\ shutdown_ = InitShutdown
  /\ op = NewOp("none", OK)
  /\ wire = <<>>
  /\ inflight = <<>>
  /\ peer = [plain |-> <<>>, records |-> 0, closed |-> FALSE, eof |-> FALSE, damaged |-> FALSE]
  /\ sentPlain = <<>>
  /\ gotPlain = <<>>
  /\ nops = 0

\* The caller may start an operation when none is in flight.
CanStart == op.pc \in {"idle", "done"} /\ nops < MaxOps

\* The first n bytes of the caller's buffer after a read_some that returned
\* n; bytes the driver did not copy are whatever the buffer held (0).
Delivered(copied, n) == [i \in 1..n |-> IF i <= Len(copied) THEN copied[i] ELSE 0]

\* Plaintext of k bytes that continues a stream of base bytes: every byte
\* is labelled by its position in the stream, so that a lost, repeated or
\* displaced byte shows.
Fresh(base, k) == [i \in 1..k |-> base + i]

\* ---- caller operations --------------------------------------------------
Handshake ==
  /\ CanStart
  /\ \E type \in HandshakeTypes, ec0 \in {OK, Stale}, cred_ok \in BOOLEAN :
       LET r == handshake_loop(handshake_init(handshake_, type), NewOp("handshake", ec0), cred_ok)
       IN handshake_' = r.h /\ op' = r.o
  /\ nops' = nops + 1
  /\ UNCHANGED <<encrypt_, decrypt_, shutdown_, wire, inflight, peer, sentPlain, gotPlain>>

AsyncHandshake ==
  /\ CanStart
  /\ \E type \in HandshakeTypes, cred_ok \in BOOLEAN :
       LET r == async_entry(handshake_init(handshake_, type), NewOp("async_handshake", OK),
                            OK, 0, FALSE, "initiating_call", cred_ok)
       IN handshake_' = r.h /\ op' = r.o
  /\ nops' = nops + 1
  /\ UNCHANGED <<encrypt_, decrypt_, shutdown_, wire, inflight, peer, sentPlain, gotPlain>>

ReadSome ==
  /\ CanStart
  /\ \E cap \in 0..MaxCap, ec0 \in {OK, Stale},
        ctx_ok \in ContextStates(decrypt_, HandshakeDone(handshake_)) :
       LET r == read_some_loop(decrypt_, [NewOp("read_some", ec0) EXCEPT !.cap = cap],
                               ctx_ok)
       IN /\ decrypt_' = r.d
          /\ op' = r.o
          /\ gotPlain' = IF r.o.pc = "done" THEN gotPlain \o Delivered(r.d.copied, r.o.n) ELSE gotPlain
  /\ nops' = nops + 1
  /\ UNCHANGED <<handshake_, encrypt_, shutdown_, wire, inflight, peer, sentPlain>>

WriteSome ==
  /\ CanStart
  /\ \E k \in 1..MaxPlain, ec0 \in {OK, Stale},
        ctx_ok \in ContextStates(encrypt_, HandshakeDone(handshake_)) :
       LET r == write_some_start(encrypt_, NewOp("write_some", ec0), Fresh(Len(sentPlain), k),
                                 ctx_ok)
       IN encrypt_' = r.e /\ op' = r.o
  /\ nops' = nops + 1
  /\ UNCHANGED <<handshake_, decrypt_, shutdown_, wire, inflight, peer, sentPlain, gotPlain>>

\* read_some(buffers): boost::system::error_code ec{}; read_some(buffers, ec).
ReadSomeThrowing ==
  /\ CanStart
  /\ \E cap \in 0..MaxCap, ctx_ok \in ContextStates(decrypt_, HandshakeDone(handshake_)) :
       LET r == read_some_loop(decrypt_,
                               [NewOp("read_some", OK) EXCEPT !.cap = cap, !.throwing = TRUE],
                               ctx_ok)
       IN /\ decrypt_' = r.d
          /\ \E g \in Indeterminate(r.o) : op' = throwing_return(r.o, g)
          /\ gotPlain' = IF r.o.pc = "done" THEN gotPlain \o Delivered(r.d.copied, r.o.n) ELSE gotPlain
  /\ nops' = nops + 1
  /\ UNCHANGED <<handshake_, encrypt_, shutdown_, wire, inflight, peer, sentPlain>>

\* write_some(buffers): boost::system::error_code ec{}; write_some(buffers, ec).
WriteSomeThrowing ==
  /\ CanStart
  /\ \E k \in 1..MaxPlain, ctx_ok \in ContextStates(encrypt_, HandshakeDone(handshake_)) :
       LET r == write_some_start(encrypt_, [NewOp("write_some", OK) EXCEPT !.throwing = TRUE],
                                 Fresh(Len(sentPlain), k), ctx_ok)
       IN /\ encrypt_' = r.e
          /\ \E g \in Indeterminate(r.o) : op' = throwing_return(r.o, g)
  /\ nops' = nops + 1
  /\ UNCHANGED <<handshake_, decrypt_, shutdown_, wire, inflight, peer, sentPlain, gotPlain>>

Shutdown ==
  /\ CanStart
  /\ \E ec0 \in {OK, Stale}, ctx_ok \in ContextStates(shutdown_, HandshakeDone(handshake_)) :
       LET r == shutdown_start(shutdown_, NewOp("shutdown", ec0), ctx_ok)
       IN shutdown_' = r.s /\ op' = r.o
  /\ nops' = nops + 1
  /\ UNCHANGED <<handshake_, encrypt_, decrypt_, wire, inflight, peer, sentPlain, gotPlain>>

\* ---- the transport (next_layer_) answers --------------------------------
\* What the operation does when its transport read has returned.
AfterRead(o0, ec, n, bad, bytes) ==
  LET o == [o0 EXCEPT !.io = TRUE] IN
  IF o.kind = "handshake"
  THEN LET r == handshake_after_read(handshake_, o, ec, n, bad)
       IN handshake_' = r.h /\ op' = r.o /\ UNCHANGED <<decrypt_, gotPlain>>
  ELSE IF o.kind = "async_handshake"
  THEN LET r == async_entry(handshake_, o, ec, n, bad, "transport_completion", TRUE)
       IN handshake_' = r.h /\ op' = r.o /\ UNCHANGED <<decrypt_, gotPlain>>
  ELSE \E ctx_ok \in ContextStates(decrypt_, HandshakeDone(handshake_)) :
       LET r == read_some_after_read(decrypt_, o, ec, bytes, ctx_ok)
       IN /\ decrypt_' = r.d
          /\ \E g \in Indeterminate(r.o) : op' = throwing_return(r.o, g)
          /\ gotPlain' = IF r.o.pc = "done" THEN gotPlain \o Delivered(r.d.copied, r.o.n) ELSE gotPlain
          /\ UNCHANGED handshake_

\* A handshake record fragment of n bytes arrives (bad: the peer's record
\* is one the engine rejects).
HandshakeReadData ==
  /\ op.pc = "read" /\ op.kind \in {"handshake", "async_handshake"}
  /\ \E n \in 1..MaxChunk, bad \in BOOLEAN : AfterRead(op, OK, n, bad, <<>>)
  /\ UNCHANGED <<encrypt_, shutdown_, wire, inflight, peer, sentPlain, nops>>

\* The transport delivers the next k bytes of the peer's record stream.
ReadSomeReadData ==
  /\ op.pc = "read" /\ op.kind = "read_some"
  /\ \E k \in 1..Min(MaxChunk, Len(inflight)) :
       /\ AfterRead(op, OK, k, FALSE, Take(inflight, k))
       /\ inflight' = Drop(inflight, k)
  /\ UNCHANGED <<encrypt_, shutdown_, wire, peer, sentPlain, nops>>

\* The transport read returns 0 bytes and no error: clean end of file.
TransportReadEof ==
  /\ op.pc = "read"
  /\ op.kind = "read_some" => (peer.eof /\ inflight = <<>>)
  /\ AfterRead([op EXCEPT !.saw_eof = TRUE], OK, 0, FALSE, <<>>)
  /\ UNCHANGED <<encrypt_, shutdown_, wire, inflight, peer, sentPlain, nops>>

TransportReadError ==
  /\ op.pc = "read"
  /\ \E e \in TransportErrors : AfterRead([op EXCEPT !.net_error = e], e, 0, FALSE, <<>>)
  /\ UNCHANGED <<encrypt_, shutdown_, wire, inflight, peer, sentPlain, nops>>

\* The buffer net::write is sending.
WriteBuffer == IF op.kind = "write_some" THEN encrypt_.buffers
               ELSE IF op.kind = "shutdown" THEN shutdown_.buffer
               ELSE <<>>

\* What the operation does when net::write / net::async_write has returned.
AfterWrite(o0, ec) ==
  LET o == [o0 EXCEPT !.io = TRUE] IN
  IF o.kind = "handshake"
  THEN LET r == handshake_after_write(handshake_, o, ec, o.written)
       IN handshake_' = r.h /\ op' = r.o /\ UNCHANGED <<shutdown_, sentPlain>>
  ELSE IF o.kind = "async_handshake"
  THEN LET r == async_entry(handshake_, o, ec, o.written, FALSE, "transport_completion", TRUE)
       IN handshake_' = r.h /\ op' = r.o /\ UNCHANGED <<shutdown_, sentPlain>>
  ELSE IF o.kind = "write_some"
  THEN LET o2 == write_some_after_write(o, ec)
       IN /\ \E g \in Indeterminate(o2) : op' = throwing_return(o2, g)
          /\ sentPlain' = sentPlain \o Take(o.plain, o2.n)
          /\ UNCHANGED <<handshake_, shutdown_>>
  ELSE LET r == shutdown_after_write(shutdown_, o, ec, o.written)
       IN shutdown_' = r.s /\ op' = r.o /\ UNCHANGED <<handshake_, sentPlain>>

\* One next_layer_.write_some inside net::write accepts k bytes.
TransportWriteSome ==
  /\ op.pc = "write"
  /\ \E k \in 1..Min(MaxChunk, op.total - op.written) :
       LET o1 == [op EXCEPT !.written = op.written + k]
       IN /\ wire' = wire \o SubSeq(WriteBuffer, op.written + 1, Min(op.written + k, Len(WriteBuffer)))
          /\ IF transfer_all(o1.written, o1.total)
             THEN op' = o1 /\ UNCHANGED <<handshake_, shutdown_, sentPlain>>
             ELSE AfterWrite(o1, OK)
  /\ UNCHANGED <<encrypt_, decrypt_, inflight, peer, gotPlain, nops>>

TransportWriteError ==
  /\ op.pc = "write"
  /\ \E e \in TransportErrors : AfterWrite([op EXCEPT !.net_error = e], e)
  /\ UNCHANGED <<encrypt_, decrypt_, wire, inflight, peer, gotPlain, nops>>

\* The executor runs the continuation posted at line 79.
RunPosted ==
  /\ op.pc = "posted"
  /\ LET r == async_entry(handshake_, op, OK, 0, FALSE, "posted_continuation", TRUE)
     IN handshake_' = r.h /\ op' = r.o
  /\ UNCHANGED <<encrypt_, decrypt_, shutdown_, wire, inflight, peer, sentPlain, gotPlain, nops>>

\* ---- the peer and the network -------------------------------------------
\* The peer's sends are observed by the stream only through transport reads
\* of application data, so they are interleaved only where such a read can
\* follow: between operations and while read_some is blocked.
PeerTurn ==
  /\ HandshakeDone(handshake_)
  /\ op.pc \in {"idle", "done"} \/ (op.pc = "read" /\ op.kind = "read_some")

PeerWrite ==
  /\ PeerTurn /\ ~peer.closed /\ ~peer.eof
  /\ peer.records < MaxPeerRecords
  /\ \E k \in 1..RecordSize :
       LET p == Fresh(Len(peer.plain), k)
       IN /\ inflight' = inflight \o EncryptRecord(p)
          /\ peer' = [peer EXCEPT !.plain = peer.plain \o p, !.records = peer.records + 1]
  /\ UNCHANGED <<handshake_, encrypt_, decrypt_, shutdown_, op, wire, sentPlain, gotPlain, nops>>

PeerCloseNotify ==
  /\ PeerTurn /\ ~peer.closed /\ ~peer.eof
  /\ inflight' = inflight \o CloseAlert
  /\ peer' = [peer EXCEPT !.closed = TRUE]
  /\ UNCHANGED <<handshake_, encrypt_, decrypt_, shutdown_, op, wire, sentPlain, gotPlain, nops>>

\* The peer's side of the transport closes; bytes past the first m in
\* flight are lost with it.
PeerCloseTransport ==
  /\ PeerTurn /\ ~peer.eof
  /\ \E m \in 0..Len(inflight) :
       /\ inflight' = Take(inflight, m)
       /\ peer' = [peer EXCEPT !.eof = TRUE, !.damaged = peer.damaged \/ (m < Len(inflight))]
  /\ UNCHANGED <<handshake_, encrypt_, decrypt_, shutdown_, op, wire, sentPlain, gotPlain, nops>>

\* A man in the middle alters one byte in flight.
Tamper ==
  /\ PeerTurn /\ ~peer.damaged
  /\ \E i \in 1..Len(inflight) :
       inflight' = [inflight EXCEPT ![i] = 99]
  /\ peer' = [peer EXCEPT !.damaged = TRUE]
  /\ UNCHANGED <<handshake_, encrypt_, decrypt_, shutdown_, op, wire, sentPlain, gotPlain, nops>>

Next ==
  \/ Handshake
  \/ AsyncHandshake
  \/ ReadSome
  \/ WriteSome
  \/ Shutdown
  \/ HandshakeReadData
  \/ ReadSomeReadData
  \/ TransportReadEof
  \/ TransportReadError
  \/ TransportWriteSome
  \/ TransportWriteError
  \/ RunPosted
  \/ PeerWrite
  \/ PeerCloseNotify
  \/ PeerCloseTransport
  \/ Tamper

Spec == Init /\ [][Next]_vars

\* ------------------------------------------------------------------------
\* The stream after a client handshake that succeeded, before the caller's
\* next operation: the record layer is open in both directions.
\* ------------------------------------------------------------------------
HandshakeEstablished ==
  [type |-> "client", started |-> TRUE, stage |-> 3, state |-> "done",
   in_len |-> 0, in_bad |-> FALSE, eof |-> FALSE, out_size |-> 0,
   last_error |-> OK, committed |-> 0, fed |-> -1, manual_auth |-> 0,
   handles |-> "own"]

InitOpen ==
  /\ handshake_ = HandshakeEstablished
  /\ encrypt_ = InitEncrypt
  /\ decrypt_ = InitDecrypt
  /\ shutdown_ = InitShutdown
  /\ op = NewOp("none", OK)
  /\ wire = <<>>
  /\ inflight = <<>>
  /\ peer = [plain |-> <<>>, records |-> 0, closed |-> FALSE, eof |-> FALSE, damaged |-> FALSE]
  /\ sentPlain = <<>>
  /\ gotPlain = <<>>
  /\ nops = 0

NextOpen ==
  \/ ReadSome
  \/ WriteSome
  \/ Shutdown
  \/ ReadSomeReadData
  \/ TransportReadEof
  \/ TransportReadError
  \/ TransportWriteSome
  \/ TransportWriteError
  \/ PeerWrite
  \/ PeerCloseNotify
  \/ PeerCloseTransport
  \/ Tamper

SpecOpen == InitOpen /\ [][NextOpen]_vars

\* The established stream used through the overloads without ec.
NextThrowing ==
  \/ ReadSomeThrowing
  \/ WriteSomeThrowing
  \/ ReadSomeReadData
  \/ TransportReadEof
  \/ TransportReadError
  \/ TransportWriteSome
  \/ TransportWriteError
  \/ PeerWrite
  \/ PeerCloseNotify
  \/ PeerCloseTransport
  \/ Tamper

SpecThrowing == InitOpen /\ [][NextThrowing]_vars

\* ------------------------------------------------------------------------
\* The stream against a peer that keeps sending well-formed records over a
\* transport that delivers them in fragments of 1 byte or more and accepts
\* every write: no failure of the credentials, of the transport or of the
\* peer.  The handshake is followed by reads of the peer's data.
\* ------------------------------------------------------------------------
FragmentedHandshake == Handshake /\ op'.ec = OK /\ handshake_'.state # "error"

FragmentedAsyncHandshake == AsyncHandshake /\ handshake_'.state # "error"

FragmentedRead == HandshakeReadData /\ ~handshake_'.in_bad

NextFragmented ==
  \/ FragmentedHandshake
  \/ FragmentedAsyncHandshake
  \/ FragmentedRead
  \/ TransportWriteSome
  \/ RunPosted
  \/ ReadSome
  \/ ReadSomeReadData
  \/ PeerWrite

\* The peer keeps sending, the transport keeps accepting and the executor
\* runs what is posted to it.
SpecFragmented ==
  /\ Init /\ [][NextFragmented]_vars
  /\ WF_vars(FragmentedRead) /\ WF_vars(TransportWriteSome) /\ WF_vars(RunPosted)

\* ------------------------------------------------------------------------
\* stream(stream&& other) = default (stream.hpp line 75), as used by
\* server::do_accept and session::session (echo_server.cpp): the stream the
\* caller goes on with is move-constructed from another one, which is then
\* destroyed.  The handle members move to the new object; each driver is
\* moved with the alias it holds.
\* ------------------------------------------------------------------------
MoveConstruct ==
  /\ op.pc \in {"idle", "done"}
  /\ handshake_.handles = "own"
  /\ handshake_' = move_driver(handshake_)
  /\ encrypt_' = move_driver(encrypt_)
  /\ decrypt_' = move_driver(decrypt_)
  /\ shutdown_' = move_driver(shutdown_)
  /\ UNCHANGED <<op, wire, inflight, peer, sentPlain, gotPlain, nops>>

NextMove == MoveConstruct \/ Next

SpecMove == Init /\ [][NextMove]_vars

\* A stream that is fresh or already established, with every caller
\* operation allowed on it: handshake can follow a handshake that succeeded
\* or a shutdown.
InitEither == Init \/ InitOpen

SpecEither == InitEither /\ [][Next]_vars

\* The drivers' state of InitOpen is one the handshake reaches.
EstablishedReached == handshake_ = HandshakeEstablished /\ op.pc = "done" /\ op.kind = "handshake"

\* ------------------------------------------------------------------------
\* The phase of section 3, read off the drivers: the stream object keeps no
\* phase member (stream.hpp lines 456-467).
\* ------------------------------------------------------------------------
Phase ==
  IF handshake_.state = "error" \/ decrypt_.last_error \in {SEC_E_MESSAGE_ALTERED, TruncatedRecord}
  THEN "FAULTED"
  ELSE IF shutdown_.emitted = 1 THEN "CLOSED"
  ELSE IF decrypt_.last_error = SEC_I_CONTEXT_EXPIRED THEN "CLOSING"
  ELSE IF handshake_.state = "done" THEN "OPEN"
  ELSE IF handshake_.started THEN "HANDSHAKING"
  ELSE "FRESH"

\* Position of a phase on the line FRESH .. CLOSED; FAULTED absorbs.
PhaseRank(p) ==
  CASE p = "FRESH" -> 0
    [] p = "HANDSHAKING" -> 1
    [] p = "OPEN" -> 2
    [] p = "CLOSING" -> 3
    [] p = "CLOSED" -> 4
    [] OTHER -> 5

HandshakeKinds == {"handshake", "async_handshake"}

Finished(kind) == op.kind = kind /\ op.pc = "done"

\* ------------------------------------------------------------------------
\* Properties
\* ------------------------------------------------------------------------

\* C1: after any sequence of write_some calls on an established stream
\* (no shutdown among them), the plaintext the peer obtains by decrypting
\* the bytes the transport accepted equals the concatenation, over the
\* calls, of the first bytes_consumed bytes of each plaintext.
C1_PeerObtainsConsumedPlaintext ==
  (op.pc \in {"idle", "done"} /\ shutdown_.emitted = 0) => PeerDecrypt(wire) = sentPlain

\* Plaintext accounted for on the receiving side: returned to the caller,
\* staged in the driver, or still enciphered in the driver or the transport.
Held == gotPlain \o decrypt_.decrypted_data \o PeerDecrypt(decrypt_.encrypted_data \o inflight)

\* C2: however the transport splits the peer's records over its reads, the
\* bytes read_some returned are the front of the peer's plaintext; with what
\* is staged and what is still enciphered (leftover included) they make up
\* exactly what the peer wrote, and when read_some reports the close or an
\* engine error everything before it has been returned.
C2_ReadsReturnPeerPlaintext ==
  /\ IsPrefix(gotPlain, peer.plain)
  /\ IsPrefix(Held, peer.plain)
  /\ ~peer.damaged => Held = peer.plain
  /\ (Finished("read_some") /\ decrypt_.state = "error") => gotPlain = Held

\* C2 witness: read_some returned plaintext while the head of the next
\* record, delivered by the same transport read, stays as leftover.
C2_Witness ==
  /\ Finished("read_some") /\ op.n > 0
  /\ decrypt_.encrypted_data # <<>>
  /\ RecordStatus(decrypt_.encrypted_data) = "incomplete"
  /\ inflight # <<>>

\* C3: a handshake reports success only if the last driver step returned
\* done; once a step returned error no transport operation is outstanding
\* and the operation reports last_error, which is not success.
C3_HandshakeResult ==
  op.kind \in HandshakeKinds =>
    /\ (op.pc = "done" /\ op.ec = OK) => handshake_.state = "done"
    /\ handshake_.state = "error" => op.pc \in {"posted", "done"}
    /\ (op.pc = "done" /\ handshake_.state = "error") =>
         (op.ec = handshake_.last_error /\ op.ec # OK)

\* C3 witness: the engine rejected a handshake record that was read.
C3_Witness ==
  /\ Finished("handshake") /\ op.io
  /\ handshake_.state = "error" /\ op.ec = SEC_E_ILLEGAL_MESSAGE

\* C4: the handler of async_handshake is invoked at most once, exactly once
\* when the operation has ended, and once it is invoked the operation
\* neither steps the driver nor starts a transport operation or a post.
C4_HandlerOnce ==
  /\ [](op.kind = "async_handshake" =>
          (op.completions <= 1 /\ (op.pc = "done" <=> op.completions = 1)))
  /\ [][(op.kind = "async_handshake" /\ op.completions >= 1 /\ nops' = nops)
          => (op' = op /\ handshake_' = handshake_)]_vars

\* C4 witness: the handler ran once after a transport operation failed.
C4_Witness ==
  /\ Finished("async_handshake") /\ op.completions = 1
  /\ op.net_error \in TransportErrors /\ op.io

\* C5: the handler of async_handshake never runs inside the initiating
\* call; when the driver reached done or error on the first entry the
\* completion is posted once and the handler runs from the posted
\* continuation; after a transport completion it runs from that completion
\* and nothing is posted.
C5_HandlerNotInline ==
  op.kind = "async_handshake" =>
    /\ op.via # "initiating_call"
    /\ op.posts <= 1
    /\ op.io => op.posts = 0
    /\ op.pc = "posted" => (op.posts = 1 /\ handshake_.state \in {"done", "error"})
    /\ (op.pc = "done" /\ ~op.io) => (op.posts = 1 /\ op.via = "posted_continuation")
    /\ (op.pc = "done" /\ op.io) => op.via = "transport_completion"

\* C5 witness: done on the first entry, completed from the posted continuation.
C5_Witness ==
  /\ Finished("async_handshake") /\ op.via = "posted_continuation"
  /\ handshake_.state = "done" /\ op.ec = OK

\* C6: when next_layer_ fails a read or a write of an operation with error
\* e, the operation has ended and reports e.
C6_TransportErrorUnchanged ==
  op.net_error # "none" => (op.pc = "done" /\ op.ec = op.net_error)

\* C6 witness: net::write of write_some failed after part of the record.
C6_Witness ==
  /\ Finished("write_some") /\ op.net_error \in TransportErrors
  /\ op.written > 0 /\ op.written < op.total

\* C7: an operation leaves net::write without error only when the whole
\* buffer is on the transport: the handshake driver is stepped again, and
\* write_some reports success, only after all bytes of the flight or of
\* the record have been accepted.
C7_OutputFlushed ==
  /\ (op.kind \in HandshakeKinds /\ op.pc # "write" /\ op.net_error = "none") =>
        op.written = op.total
  /\ (Finished("write_some") /\ op.ec = OK) =>
        /\ op.written = op.total
        /\ op.total = Len(encrypt_.buffers)
        /\ Len(wire) >= op.total
        /\ SubSeq(wire, Len(wire) - op.total + 1, Len(wire)) = encrypt_.buffers

\* C7 witness: a record longer than one transport write was sent.
C7_Witness ==
  /\ Finished("write_some") /\ op.ec = OK
  /\ op.total = 1 + RecordSize /\ op.n = RecordSize

\* C8: a driver that returned data_needed is stepped again only after at
\* least one byte has been committed.
C8_StepOnlyAfterInput ==
  handshake_.fed # 0 /\ decrypt_.fed # 0

\* C9: an empty transport read while a driver waits for data ends the
\* operation with an error: unexpected close for a handshake, truncated
\* record for read_some.
C9_EofIsError ==
  op.saw_eof =>
    /\ op.pc = "done" /\ op.ec # OK
    /\ op.kind \in HandshakeKinds => op.ec = UnexpectedClose
    /\ op.kind = "read_some" => (op.ec = TruncatedRecord /\ op.n = 0)

\* C9 witness: end of file with a partial record buffered in read_some.
C9_Witness ==
  /\ Finished("read_some") /\ op.saw_eof
  /\ decrypt_.encrypted_data # <<>> /\ op.ec = TruncatedRecord

C12_FailureIsSticky ==
  [][(/\ op.pc = "done" /\ op.ec \in (ProtocolErrors \cup TransportErrors)
      /\ nops' = nops + 1
      /\ ~(op'.kind = "read_some" /\ op'.cap = 0))
       => (op'.pc = "done" /\ op'.ec \notin {OK, Stale})]_vars

\* The code returned by an operation refused for the phase the stream is
\* in: an error of its own kind, neither success nor a protocol error of
\* the engine nor a transport error.
IsApiMisuse(ec) == ec \notin ({OK, Stale, SEC_I_CONTEXT_EXPIRED} \cup ProtocolErrors \cup TransportErrors)

\* C13: write_some is admitted only in phase OPEN and read_some only in
\* OPEN and CLOSING: issued in another phase the call returns at once with
\* an API-misuse error, without an engine step or transport I/O (a
\* zero-capacity read_some, which returns 0 in every state, is left aside).
C13_AdmittedOnlyWhenOpen ==
  [][(/\ nops' = nops + 1
      /\ \/ op'.kind = "write_some" /\ Phase # "OPEN"
         \/ op'.kind = "read_some" /\ op'.cap > 0 /\ Phase \notin {"OPEN", "CLOSING"})
       => (op'.pc = "done" /\ IsApiMisuse(op'.ec)
           /\ encrypt_' = encrypt_ /\ decrypt_' = decrypt_)]_vars

CloseNotifyCount(bytes) == Cardinality({i \in DOMAIN bytes : bytes[i] = CloseAlert[1]})

\* C15: a second shutdown on a stream is a no-op: the transport never
\* carries more than one close_notify of the stream.
C15_ShutdownOnce == CloseNotifyCount(wire) <= 1

C18_OneRecordPerWrite ==
  (Finished("write_some") /\ op.ec = OK) =>
    /\ op.n >= 1 /\ op.n <= Len(op.plain) /\ op.n <= RecordSize
    /\ op.n = op.consumed
    /\ op.written = Len(encrypt_.buffers)
    /\ RecordStatus(encrypt_.buffers) = "record"
    /\ RecordLen(encrypt_.buffers) = Len(encrypt_.buffers)
    /\ RecordPlain(encrypt_.buffers) = Take(op.plain, op.n)
    /\ Len(wire) >= op.written
    /\ SubSeq(wire, Len(wire) - op.written + 1, Len(wire)) = encrypt_.buffers

\* C18 witness: a plaintext longer than one record was consumed in part.
C18_Witness ==
  /\ Finished("write_some") /\ op.ec = OK
  /\ Len(op.plain) > RecordSize /\ op.n = RecordSize

\* C19: when read_some(buffers) or write_some(buffers) has ended, it has
\* returned the byte count its call of the ec overload returned if that
\* call left ec clear, and has raised the error of ec otherwise.
C19_ThrowingSameAsErrorCode ==
  (op.throwing /\ op.pc = "done") =>
    /\ op.ec = OK => (op.ret = op.n /\ op.thrown = "none")
    /\ op.ec # OK => op.thrown = op.ec

\* C20: the blocking handshake and async_handshake make the same driver
\* calls: in particular, when either has ended after the driver returned
\* done, the manual certificate selection manual_auth() has been performed.
C20_SameDriverCalls ==
  (op.kind \in HandshakeKinds /\ op.pc = "done" /\ handshake_.state = "done")
    => handshake_.manual_auth = 1

\* C21: no transport read is outstanding while the decrypt driver holds
\* staged plaintext, and a read_some with a buffer of capacity N > 0 issued
\* while r > 0 bytes are staged returns at once the first min(N, r) of
\* them, without a transport read and without touching the ciphertext.
C21_StagedPlaintextFirst ==
  /\ [](op.pc = "read" => decrypt_.decrypted_data = <<>>)
  /\ [][(/\ nops' = nops + 1 /\ op'.kind = "read_some" /\ op'.cap > 0
         /\ decrypt_.decrypted_data # <<>>)
          => /\ op'.pc = "done" /\ ~op'.io
             /\ op'.n = Min(op'.cap, Len(decrypt_.decrypted_data))
             /\ gotPlain' = gotPlain \o Take(decrypt_.decrypted_data, op'.cap)
             /\ decrypt_'.decrypted_data = Drop(decrypt_.decrypted_data, op'.cap)
             /\ decrypt_'.encrypted_data = decrypt_.encrypted_data
             /\ inflight' = inflight]_vars

\* C21 witness: a read_some was served from the staged plaintext alone
\* while more of the peer's bytes were waiting in the transport.
C21_Witness ==
  /\ Finished("read_some") /\ ~op.io /\ op.n > 0
  /\ inflight # <<>>

\* C22: with the peer's handshake records delivered in fragments down to
\* 1 byte, a handshake that was started ends with success once the driver
\* has returned done; a step that returned data_needed is followed by a
\* transport read, and the driver is stepped again only after a read that
\* committed at least 1 byte or after the whole of its output was written.
C22_FragmentedHandshakeCompletes ==
  /\ [](handshake_.fed # 0)
  /\ []((op.kind \in HandshakeKinds /\ handshake_.state = "data_needed") => op.pc = "read")
  /\ [][(op.kind \in HandshakeKinds /\ nops' = nops /\ handshake_' # handshake_) =>
          \/ /\ op.pc = "read" /\ handshake_.state = "data_needed"
             /\ handshake_'.fed >= 1
          \/ /\ op.pc = "write" /\ handshake_.state = "data_available"
             /\ op'.written = op.total /\ handshake_.out_size = op.total]_vars
  /\ (op.kind \in HandshakeKinds /\ op.pc # "done")
       ~> (op.pc = "done" /\ op.ec = OK /\ handshake_.state = "done")

\* C22 witness: a server handshake succeeded whose last inbound record
\* arrived split, its last byte alone in the last transport read.
C22_Witness ==
  /\ op.kind \in HandshakeKinds /\ op.pc = "done" /\ op.ec = OK
  /\ handshake_.type = "server" /\ handshake_.state = "done"
  /\ handshake_.fed = 1 /\ handshake_.in_len = 0

\* C23: when a transport read or write of handshake, async_handshake,
\* read_some or shutdown fails, the operation ends in that step with every
\* driver exactly as it was when the transport operation was started (no
\* size_read or size_written commit, no further step), and the drivers
\* stay so until the caller starts another operation.
C23_FailedTransferLeavesDriver ==
  [][(/\ op.kind \in {"handshake", "async_handshake", "read_some", "shutdown"}
      /\ nops' = nops
      /\ op'.net_error # "none")
       => /\ op'.pc = "done"
          /\ handshake_' = handshake_ /\ decrypt_' = decrypt_
          /\ shutdown_' = shutdown_ /\ encrypt_' = encrypt_]_vars

\* C23 witness: a transport read of read_some failed while the decrypt
\* driver held part of a record and waited for the rest.
C23_Witness ==
  /\ Finished("read_some") /\ op.net_error \in TransportErrors
  /\ decrypt_.encrypted_data # <<>> /\ decrypt_.state = "data_needed"
  /\ decrypt_.fed > 0

\* The driver an operation of the given kind runs.
DriverOf(kind, h, e, d, s) ==
  IF kind \in HandshakeKinds THEN h
  ELSE IF kind = "write_some" THEN e
  ELSE IF kind = "read_some" THEN d
  ELSE s

\* C24: every operation the caller starts, also on a stream that was
\* move-constructed from another one, runs a driver whose handles are the
\* credentials and context handle members of that stream itself.
C24_DriversUseOwnHandles ==
  [][nops' = nops + 1 =>
       DriverOf(op'.kind, handshake_', encrypt_', decrypt_', shutdown_').handles = "own"]_vars

====
